---- MODULE Spec2Model ----
(***************************************************************************)
(* The backend resolver of mpl_gui (src/mpl_gui/_manage_backend.py).       *)
(*                                                                         *)
(* State: the module global _backend_mod, the two Config Store slots       *)
(* rcParams["backend"] and rcParamsDefault["backend"], and the part of     *)
(* sys.modules that select_gui_toolkit writes.  The collaborators the code *)
(* only calls (the import system, the running-framework probe, the IPython *)
(* session) are the environment: which backend modules import, which       *)
(* framework runs, and how enable_gui answers.                             *)
(*                                                                         *)
(* One action per entry point: Select (select_gui_toolkit) and GetCurrent  *)
(* (current_backend_module).  Each is the whole call, the nested           *)
(* select_gui_toolkit(candidate) calls of auto-detection included.  The    *)
(* variable last records what the last call was given, did and answered.   *)
(***************************************************************************)
EXTENDS Integers, Sequences, FiniteSets, TLC

VARIABLES
    backend_mod,      \* _backend_mod: None or the active backend
    rcParams,         \* rcParams["backend"], read with dict.__getitem__
    rcParamsDefault,  \* rcParamsDefault["backend"]
    sys_modules,      \* the entries select_gui_toolkit put in sys.modules
    framework,        \* what cbook._get_running_interactive_framework() returns
    importable,       \* the matplotlib.backends.backend_* modules that import
    ip,               \* the IPython session, as seen through enable_gui
    last              \* record of the last call

vars == <<backend_mod, rcParams, rcParamsDefault, sys_modules, framework,
          importable, ip, last>>

\* Bound: the number of interactive backends whose toolkit is installed.
MaxInstalled == 1

----------------------------------------------------------------------------
\* Values

\* Python's None, as a request, a handle or a record field.
None == [kind |-> "None"]

\* None as the value of required_interactive_framework or of the probe.
NoFramework == "None"

\* rcsetup._auto_backend_sentinel
Sentinel == [kind |-> "sentinel"]

\* A Python string: pfx is the prefix the code tests or builds, body the rest,
\* n the number a synthesized key ends with (NoId in every other string).
NoId == <<>>
Str(pfx, body, n) == [kind |-> "str", pfx |-> pfx, body |-> body, n |-> n]

\* A plain backend name such as "agg".
Name(b) == Str("", b, NoId)

\* The keys of mapping.
Frameworks == {"qt", "gtk3", "gtk4", "wx", "tk", "macosx", "headless"}

\* mapping: running framework -> best guess.
mapping ==
    [f \in Frameworks |->
        CASE f = "qt"       -> "qtagg"
          [] f = "gtk3"     -> "gtk3agg"
          [] f = "gtk4"     -> "gtk4agg"
          [] f = "wx"       -> "wxagg"
          [] f = "tk"       -> "tkagg"
          [] f = "macosx"   -> "macosx"
          [] f = "headless" -> "agg"]

\* The fixed fallback sequence.
Fallbacks == <<"macosx", "qt5agg", "gtk3agg", "tkagg", "wxagg">>

\* The last resort.
LastResort == "agg"

\* The backend names the code itself names.
BackendNames == {mapping[f] : f \in Frameworks}
                    \cup {Fallbacks[i] : i \in DOMAIN Fallbacks}
                    \cup {LastResort}

\* str.lower() on the names the model uses ("The argument is case-insensitive").
Lower(b) == IF b = "TkAgg" THEN "tkagg" ELSE b

\* The package prefix cbook._backend_module_name puts before a plain name.
BackendPkg == "matplotlib.backends.backend_"

\* cbook._backend_module_name(name): name[9:] after "module://", else the
\* backend module of the lower-cased name.
backend_module_name(s) ==
    IF s.pfx = "module://" THEN Str("", s.body, s.n)
    ELSE Str(BackendPkg, Lower(s.body), s.n)

\* FigureCanvas.required_interactive_framework of matplotlib's backend modules.
CanvasRequirement(b) ==
    CASE b \in {"qtagg", "qt5agg"} -> "qt"
      [] b = "gtk3agg" -> "gtk3"
      [] b = "gtk4agg" -> "gtk4"
      [] b = "wxagg"   -> "wx"
      [] b = "tkagg"   -> "tk"
      [] b = "macosx"  -> "macosx"
      [] OTHER         -> NoFramework

\* A backend: a _Backend class.  origin "object" is a class the caller passes
\* in, origin "import" the class select_gui_toolkit builds from a module.  id
\* is the object's identity, req its FigureCanvas.required_interactive_framework.
Backend(origin, name, id, req) ==
    [kind |-> "backend", origin |-> origin, name |-> name, id |-> id, req |-> req]

\* The _Backend classes callers pass in: the test suite's TestingBackend (its
\* canvas derives FigureCanvasBase: no requirement) and an interactive one.
TestingBackend == Backend("object", "TestingBackend", <<0, 1>>, NoFramework)
QtBackend      == Backend("object", "QtBackend", <<0, 2>>, "qt")
BackendObjects == {TestingBackend, QtBackend}

\* f"module://_backend_mod_{id(backend_mod)}"
SynthesizedKey(b) == Str("module://", "_backend_mod_", b.id)

\* Truth value of a framework string.
Truthy(x) == x \notin {NoFramework, ""}

----------------------------------------------------------------------------
\* The collaborators select_gui_toolkit calls

\* The environment of one call: the probe's answer, the modules that import
\* and the IPython session.
Env == [framework |-> framework, importable |-> importable, ip |-> ip]

\* The state select_gui_toolkit reads and writes, with two counters of what a
\* call did: the arguments enable_gui was given, in order, and the number of
\* times the Config Store and _backend_mod were written.
State ==
    [backend_mod |-> backend_mod, rcParams |-> rcParams,
     rcParamsDefault |-> rcParamsDefault, sys_modules |-> sys_modules,
     notified |-> <<>>, commits |-> 0]

\* importlib.import_module(backend_name): the module sys.modules holds under
\* that very name, else the matplotlib backend module when its toolkit
\* imports; None stands for ImportError.
import_module(m, env, st) ==
    IF \E e \in st.sys_modules : e.key = m
    THEN (CHOOSE e \in st.sys_modules : e.key = m).mod
    ELSE IF m.pfx = BackendPkg /\ m.body \in env.importable
    THEN [kind |-> "module", name |-> m.body, req |-> CanvasRequirement(m.body)]
    ELSE None

\* ip.enable_gui(gui) of the session: "ok" when it returns, else the exception.
\*   absent             no IPython in sys.modules, or get_ipython() is None
\*   ok                 enable_gui returns
\*   raises             enable_gui raises for every argument (a shell that does
\*                      not implement it)
\*   raisesImportError  enable_gui raises ImportError for a framework (its
\*                      input hook does not import) and returns for None
enable_gui(session, gui) ==
    CASE session = "raises" -> "NotImplementedError"
      [] session = "raisesImportError" /\ Truthy(gui) -> "ImportError"
      [] OTHER -> "ok"

\* The result of one select_gui_toolkit call: the state it leaves, how it
\* ended ("return" or the exception's type), where the exception came from,
\* the value returned and the concrete selections it attempted, in order.
Result(st, outcome, origin, ret, tried) ==
    [st |-> st, outcome |-> outcome, origin |-> origin, ret |-> ret,
     attempts |-> <<[name |-> tried.name, backend |-> tried.backend,
                     outcome |-> outcome, origin |-> origin]>>]

----------------------------------------------------------------------------
\* select_gui_toolkit

\* Mutant of Incompatible: the comparison turned round, raising when the two
\* frameworks are the same.
Incompatible_when_same(current_framework, required_framework) ==
    /\ Truthy(current_framework)
    /\ Truthy(required_framework)
    /\ current_framework = required_framework

\* Mutant of Incompatible: the test that a framework is running left out.
Incompatible_when_idle(current_framework, required_framework) ==
    /\ Truthy(required_framework)
    /\ current_framework # required_framework

\* The condition of the compatibility check's raise.
Incompatible(current_framework, required_framework) ==
    /\ Truthy(current_framework)
    /\ Truthy(required_framework)
    /\ current_framework # required_framework

\* Mutant of compatibility_check: the check left out.
compatibility_check_skipped(current_framework, required_framework) == FALSE

\* Mutant of compatibility_check: the guard on a backend without requirement
\* left out, so that None is compared with the running framework.
compatibility_check_unguarded(current_framework, required_framework) ==
    /\ Truthy(current_framework)
    /\ current_framework # required_framework

\* The compatibility check: TRUE when it raises.
compatibility_check(current_framework, required_framework) ==
    /\ required_framework # NoFramework
    /\ Incompatible(current_framework, required_framework)

\* Mutant of candidates: the cairo backends, which the code leaves out on
\* purpose, added to the fallbacks.
candidates_with_cairo(current_framework) ==
    LET best_guess == IF current_framework \in DOMAIN mapping
                      THEN <<mapping[current_framework]>>
                      ELSE <<>>
    IN best_guess \o Fallbacks \o <<"gtk3cairo", "qt5cairo">>

\* Mutant of candidates: the best guess appended instead of put first.
candidates_guess_last(current_framework) ==
    LET best_guess == IF current_framework \in DOMAIN mapping
                      THEN <<mapping[current_framework]>>
                      ELSE <<>>
    IN Fallbacks \o best_guess

\* The candidate list of auto-detection.
candidates(current_framework) ==
    LET best_guess == IF current_framework \in DOMAIN mapping
                      THEN <<mapping[current_framework]>>
                      ELSE <<>>
    IN best_guess \o Fallbacks

\* Mutant of Caught: the handler takes only the ImportError of a failed
\* import, as if the compatibility check raised another type.
Caught_import_only(r) == r.outcome = "ImportError" /\ r.origin = "import"

\* except ImportError: continue.  r is the Result of the nested call.
Caught(r) == r.outcome = "ImportError"

\* The class the code builds from a backend module: a new object on every
\* call, with the module's globals as its body.
BackendClass(module, id) == Backend("import", module.name, id, module.req)

\* Mutant of write_selection: the default slot left as it was.
write_selection_live_only(st, rc_params_string, new_mod) ==
    [st EXCEPT !.rcParams = rc_params_string,
               !.backend_mod = new_mod,
               !.commits = @ + 1]

\* rcParams["backend"] = rcParamsDefault["backend"] = rc_params_string;
\* _backend_mod = backend_mod
write_selection(st, rc_params_string, new_mod) ==
    [st EXCEPT !.rcParams = rc_params_string,
               !.rcParamsDefault = rc_params_string,
               !.backend_mod = new_mod,
               !.commits = @ + 1]

\* select_gui_toolkit(newbackend) for a string or a _Backend class: lines
\* 86-133.  id is the identity of the class it builds for a string.
select_backend(st, newbackend, env, id) ==
    LET isstr == newbackend.kind = "str"
        module == import_module(backend_module_name(newbackend), env, st)
    IN
    IF isstr /\ module = None
    THEN Result(st, "ImportError", "import", None,
                [name |-> newbackend, backend |-> None])
    ELSE
    LET new_mod == IF isstr THEN BackendClass(module, id) ELSE newbackend
        rc_params_string == IF isstr THEN newbackend ELSE SynthesizedKey(newbackend)
        st1 == IF isstr THEN st
               ELSE [st EXCEPT !.sys_modules =
                        {e \in @ : e.key # rc_params_string}
                            \cup {[key |-> rc_params_string, mod |-> new_mod]}]
        required_framework == new_mod.req
        tried == [name |-> rc_params_string, backend |-> new_mod]
    IN
    IF compatibility_check(env.framework, required_framework)
    THEN Result(st1, "ImportError", "compat", None, tried)
    ELSE
    LET st2 == write_selection(st1, rc_params_string, new_mod)
        answer == enable_gui(env.ip, required_framework)
        st3 == [st2 EXCEPT !.notified = Append(@, required_framework)]
    IN
    IF env.ip = "absent" THEN Result(st2, "return", "", new_mod, tried)
    ELSE IF answer = "ok" THEN Result(st3, "return", "", new_mod, tried)
    ELSE Result(st3, answer, "enable_gui", None, tried)

\* Mutant of last_resort: the loop's else clause gives up with ImportError
\* instead of selecting "agg".
last_resort_gives_up(st, env, id) ==
    Result(st, "ImportError", "import", None,
           [name |-> Name(LastResort), backend |-> None])

\* The else clause of the loop: return select_gui_toolkit("agg").
last_resort(st, env, id) == select_backend(st, Name(LastResort), env, id)

\* for candidate in candidates: try: return select_gui_toolkit(candidate)
\* except ImportError: continue; else: return select_gui_toolkit("agg").
\* i is the position in the list; call tells the classes of this top-level call
\* from the class that was active before it.
RECURSIVE try_candidates(_, _, _, _, _, _)
try_candidates(st, cands, i, env, call, before) ==
    IF i > Len(cands)
    THEN LET r == last_resort(st, env, <<call, i>>)
         IN [r EXCEPT !.attempts = before \o @]
    ELSE LET r == select_backend(st, Name(cands[i]), env, <<call, i>>)
         IN IF r.outcome # "return" /\ Caught(r)
            THEN try_candidates(r.st, cands, i + 1, env, call, before \o r.attempts)
            ELSE [r EXCEPT !.attempts = before \o @]

\* What select_gui_toolkit(None) reads: the live slot, past RcParams' own
\* __getitem__.
configured_backend(st) == st.rcParams

\* The classes a call builds are new objects: none is the object that is
\* active when the call starts.  Their identities are <<call, i>>, i the
\* position of the attempt, call the one of 1 and 2 the active class does not
\* carry (an identity may come back once its object is gone).
fresh_call(mod) == IF mod # None /\ mod.id[1] = 1 THEN 2 ELSE 1

\* Mutant of select_gui_toolkit: a name whose module does not import falls
\* back on the last resort, as a candidate of auto-detection does.
select_gui_toolkit_falls_back(st, newbackend, env) ==
    LET call == fresh_call(st.backend_mod)
        nb == IF newbackend = None THEN configured_backend(st) ELSE newbackend
        r == select_backend(st, nb, env, <<call, 1>>)
        f == last_resort(r.st, env, <<call, 2>>)
    IN IF nb = Sentinel
       THEN try_candidates(st, candidates(env.framework), 1, env, call, <<>>)
       ELSE IF r.outcome = "ImportError" /\ r.origin = "import"
       THEN [f EXCEPT !.attempts = r.attempts \o @]
       ELSE r

\* select_gui_toolkit(newbackend), the whole call.
select_gui_toolkit(st, newbackend, env) ==
    LET call == fresh_call(st.backend_mod)
        nb == IF newbackend = None THEN configured_backend(st) ELSE newbackend
    IN IF nb = Sentinel
       THEN try_candidates(st, candidates(env.framework), 1, env, call, <<>>)
       ELSE select_backend(st, nb, env, <<call, 1>>)

\* Mutants of needs_select: the memo never consulted, and the test dropped.
needs_select_always(mod) == TRUE
needs_select_never(mod) == FALSE

\* if _backend_mod is None: select_gui_toolkit()
needs_select(mod) == mod = None

----------------------------------------------------------------------------
\* Actions

\* What callers pass to select_gui_toolkit: nothing, the sentinel, a name (a
\* non-interactive one, interactive ones, one in mixed case) or a class.
RequestedNames == {"agg", "qtagg", "tkagg", "TkAgg"}
Requests ==
    {None, Sentinel} \cup {Name(b) : b \in RequestedNames} \cup BackendObjects

\* The record of a call: what it was (op, req), the state and probe answer it
\* started from, and the Result fields; selected tells whether
\* current_backend_module called select_gui_toolkit.
Record(op, req, selected, r) ==
    [op |-> op, req |-> req, selected |-> selected,
     pre |-> State, framework |-> framework,
     outcome |-> r.outcome, origin |-> r.origin, ret |-> r.ret,
     attempts |-> r.attempts, notified |-> r.st.notified,
     commits |-> r.st.commits]

\* The state a Result leaves.
Commit(r) ==
    /\ backend_mod' = r.st.backend_mod
    /\ rcParams' = r.st.rcParams
    /\ rcParamsDefault' = r.st.rcParamsDefault
    /\ sys_modules' = r.st.sys_modules

\* select_gui_toolkit(req)
Select(req) ==
    /\ LET r == select_gui_toolkit(State, req, Env)
       IN /\ Commit(r)
          /\ last' = Record("select", req, TRUE, r)
    /\ UNCHANGED <<framework, importable, ip>>

\* current_backend_module(), _backend_mod unset: select, then return the
\* global (the exception of a failed select goes to the caller).
GetCurrentSelect ==
    /\ needs_select(backend_mod)
    /\ LET r == select_gui_toolkit(State, None, Env)
           answer == IF r.outcome = "return" THEN [r EXCEPT !.ret = r.st.backend_mod]
                     ELSE r
       IN /\ Commit(r)
          /\ last' = Record("get_current", None, TRUE, answer)
    /\ UNCHANGED <<framework, importable, ip>>

\* current_backend_module(), _backend_mod set: return it.
GetCurrentActive ==
    /\ ~needs_select(backend_mod)
    /\ last' = [op |-> "get_current", req |-> None, selected |-> FALSE,
                pre |-> State, framework |-> framework,
                outcome |-> "return", origin |-> "", ret |-> backend_mod,
                attempts |-> <<>>, notified |-> <<>>, commits |-> 0]
    /\ UNCHANGED <<backend_mod, rcParams, rcParamsDefault, sys_modules,
                   framework, importable, ip>>

\* The sessions whose enable_gui keeps to its interface, and all of them.
CooperativeSessions == {"absent", "ok"}
Sessions == CooperativeSessions \cup {"raises", "raisesImportError"}

\* The record before any call.
NoCall ==
    [op |-> "none", req |-> None, selected |-> FALSE,
     pre |-> [backend_mod |-> None, rcParams |-> Sentinel,
              rcParamsDefault |-> Sentinel, sys_modules |-> {},
              notified |-> <<>>, commits |-> 0],
     framework |-> NoFramework,
     outcome |-> "", origin |-> "", ret |-> None,
     attempts |-> <<>>, notified |-> <<>>, commits |-> 0]

\* After import of the module: nothing selected; rcParamsDefault holds the
\* sentinel and rcParams what the user configured (the sentinel or a name).
\* The probe's answer, the installed toolkits and the session are those of
\* the process.
InitWith(sessions) ==
    /\ backend_mod = None
    /\ rcParams \in {Sentinel, Name("qtagg")}
    /\ rcParamsDefault = Sentinel
    /\ sys_modules = {}
    /\ framework \in Frameworks \cup {NoFramework}
    /\ importable \in {S \in SUBSET BackendNames :
                            Cardinality(S \ {LastResort}) <= MaxInstalled}
    /\ ip \in sessions
    /\ last = NoCall

Init == InitWith(Sessions)

Next ==
    \/ \E req \in Requests : Select(req)
    \/ GetCurrentSelect
    \/ GetCurrentActive

Spec == Init /\ [][Next]_vars

\* The same program with a session that keeps to its interface.
InitCoop == InitWith(CooperativeSessions)
SpecCoop == InitCoop /\ [][Next]_vars

----------------------------------------------------------------------------
\* Reading the record of the last call

\* The last call ran select_gui_toolkit (directly or from
\* current_backend_module).
Selected == last.op \in {"select", "get_current"} /\ last.selected

\* The value the last call's select_gui_toolkit worked on: its argument, or
\* the configured backend when the argument was None.
Requested == IF last.req = None THEN last.pre.rcParams ELSE last.req

\* The last call ran auto-detection; the last call selected one given backend.
AutoCall == Selected /\ Requested = Sentinel
ConcreteCall == Selected /\ Requested # Sentinel

\* The last call raised.
Raised == last.outcome \notin {"", "return"}

\* The spec's two error kinds, and the session's failure.
Unavailable(a) == a.outcome = "ImportError" /\ a.origin = "import"
IsIncompatible(a) == a.outcome = "ImportError" /\ a.origin = "compat"

\* The three pieces of state C1 names are as before the last call.
StateAsBefore ==
    /\ backend_mod = last.pre.backend_mod
    /\ rcParams = last.pre.rcParams
    /\ rcParamsDefault = last.pre.rcParamsDefault

\* The order the claims give for auto-detection: the best guess for the
\* running framework, the five fallbacks, then the last resort.
ClaimedOrder(fw) ==
    (IF fw \in Frameworks THEN <<mapping[fw]>> ELSE <<>>)
        \o <<"macosx", "qt5agg", "gtk3agg", "tkagg", "wxagg">> \o <<"agg">>

----------------------------------------------------------------------------
\* C1: every select call that raises, whichever step raises (resolution, the
\* compatibility check, the Config Store write, the session notification),
\* leaves _backend_mod and both Config Store slots as they were before it.
\* The code writes all three before it calls enable_gui: when enable_gui
\* raises, the call fails with the new backend committed.
C1_FailedSelectLeavesState ==
    (last.op = "select" /\ Raised) => StateAsBefore

----------------------------------------------------------------------------
----------------------------------------------------------------------------
\* C3: a select of one given backend that resolves, with a framework running
\* and the backend requiring another one, fails with Incompatible and leaves
\* _backend_mod as it was; and no attempt of any call gets past such a
\* mismatch.
C3_MismatchRefused ==
    /\ \A i \in DOMAIN last.attempts :
          LET a == last.attempts[i]
          IN (/\ a.backend # None
              /\ Truthy(last.framework)
              /\ Truthy(a.backend.req)
              /\ a.backend.req # last.framework) => IsIncompatible(a)
    /\ (/\ ConcreteCall
        /\ last.attempts[1].backend # None
        /\ Truthy(last.framework)
        /\ Truthy(last.attempts[1].backend.req)
        /\ last.attempts[1].backend.req # last.framework)
            => /\ IsIncompatible(last)
               /\ backend_mod = last.pre.backend_mod

\* C3 witness: with a backend active, a select of a class that needs another
\* framework than the running one was refused.
C3_Witness ==
    /\ last.op = "select"
    /\ last.req = QtBackend
    /\ last.framework = "gtk3"
    /\ last.pre.backend_mod # None
    /\ IsIncompatible(last)

----------------------------------------------------------------------------
\* C4: current_backend_module with a backend active returns that backend and
\* does nothing else (no select, no attempt, no write, no notification); two
\* calls in a row return the same object.
C4_ActiveGetIsPure ==
    (last.op = "get_current" /\ last.pre.backend_mod # None) =>
        /\ ~last.selected
        /\ last.attempts = <<>>
        /\ last.commits = 0
        /\ last.notified = <<>>
        /\ last.outcome = "return"
        /\ last.ret = last.pre.backend_mod
        /\ StateAsBefore
        /\ sys_modules = last.pre.sys_modules

C4_SameTwice ==
    (last.op = "get_current" /\ last.outcome = "return" /\ last'.op = "get_current")
        => (last'.outcome = "return" /\ last'.ret = last.ret)

C4_GetCurrentMemoized == []C4_ActiveGetIsPure /\ [][C4_SameTwice]_vars

\* C4 witness: current_backend_module answered from the active backend.
C4_Witness ==
    /\ last.op = "get_current"
    /\ ~last.selected
    /\ last.ret # None
    /\ last.ret = backend_mod

----------------------------------------------------------------------------
\* C5: once select_gui_toolkit(a class) has returned, that class is
\* _backend_mod and what current_backend_module returns, until another select
\* succeeds.  A select that fails after its commit (C1) replaces the class
\* without succeeding.
C5_AfterObjectSelect ==
    /\ last.op = "select"
    /\ last.req \in BackendObjects
    /\ last.outcome = "return"

C5_KeptUntilSuccess ==
    (/\ C5_AfterObjectSelect
     /\ ~(last'.op = "select" /\ last'.outcome = "return"))
        => /\ backend_mod' = backend_mod
           /\ (last'.op = "get_current" => last'.ret = last.req)

C5_ObjectStaysCurrent ==
    /\ [](C5_AfterObjectSelect => (backend_mod = last.req /\ last.ret = last.req))
    /\ [][C5_KeptUntilSuccess]_vars

----------------------------------------------------------------------------
\* C6: auto-detection attempts the candidates in the claimed order, one after
\* the other from the first, and stops at the first attempt that succeeds:
\* that attempt is the last one, its backend is returned and is _backend_mod.
\* With the probe at "tk", a tkagg that is selected is the only attempt.
C6_InOrderUntilFirstSuccess ==
    AutoCall =>
        LET order == ClaimedOrder(last.framework)
            n == Len(last.attempts)
        IN /\ 1 <= n /\ n <= Len(order)
           /\ \A i \in 1..n :
                 /\ last.attempts[i].name = Name(order[i])
                 /\ last.attempts[i].outcome = "return" =>
                       /\ i = n
                       /\ last.outcome = "return"
                       /\ last.ret = last.attempts[i].backend
                       /\ backend_mod = last.attempts[i].backend
           /\ last.outcome = "return" => last.attempts[n].outcome = "return"
           /\ (last.framework = "tk" /\ last.attempts[1].outcome = "return")
                 => last.attempts = <<[name |-> Name("tkagg"), backend |-> backend_mod,
                                       outcome |-> "return", origin |-> ""]>>

\* C6 witness: the spec's example: no framework running, the first two
\* candidates Unavailable, the third one selected.
C6_Witness ==
    /\ AutoCall
    /\ last.framework = NoFramework
    /\ Len(last.attempts) = 3
    /\ Unavailable(last.attempts[1])
    /\ Unavailable(last.attempts[2])
    /\ last.outcome = "return"
    /\ backend_mod.name = "gtk3agg"

----------------------------------------------------------------------------
\* C7: an auto-detection in which no candidate of the list imports, while
\* "agg" does, returns the agg backend: it is _backend_mod, both Config Store
\* slots name it, and every candidate was tried before it.
C7_LastResortSelected ==
    (/\ AutoCall
     /\ \A i \in DOMAIN candidates(last.framework) :
           candidates(last.framework)[i] \notin importable
     /\ LastResort \in importable)
        => /\ last.outcome = "return"
           /\ Len(last.attempts) = Len(candidates(last.framework)) + 1
           /\ \A i \in DOMAIN candidates(last.framework) : Unavailable(last.attempts[i])
           /\ last.ret.name = "agg"
           /\ backend_mod = last.ret
           /\ rcParams = Name("agg")

\* C7 witness: with qt running and only agg installed, auto-detection went
\* through the seven attempts and returned agg.
C7_Witness ==
    /\ AutoCall
    /\ last.framework = "qt"
    /\ Len(last.attempts) = 7
    /\ Unavailable(last.attempts[6])
    /\ last.outcome = "return"
    /\ backend_mod.name = "agg"

----------------------------------------------------------------------------
\* C8: with no framework running, a select of one given backend that
\* resolves returns it, whatever it requires, and no attempt of any call
\* fails the compatibility check.
C8_NoFrameworkNoRefusal ==
    last.framework = NoFramework =>
        /\ \A i \in DOMAIN last.attempts : ~IsIncompatible(last.attempts[i])
        /\ (ConcreteCall /\ last.attempts[1].backend # None)
              => /\ last.outcome = "return"
                 /\ last.ret = last.attempts[1].backend
                 /\ backend_mod = last.ret

\* C8 witness: with no framework running, a class that requires qt was
\* selected.
C8_Witness ==
    /\ last.op = "select"
    /\ last.framework = NoFramework
    /\ last.req = QtBackend
    /\ last.outcome = "return"
    /\ backend_mod = QtBackend

----------------------------------------------------------------------------
\* C9: a select of one given backend that resolves and requires no framework
\* returns it whatever framework runs; and with such a backend active, a
\* select of a backend that resolves and whose requirement is the running
\* framework returns it.
C9_NonInteractiveAlwaysSwitches ==
    (ConcreteCall /\ last.attempts[1].backend # None) =>
        LET new == last.attempts[1].backend
            old == last.pre.backend_mod
        IN /\ new.req = NoFramework
                => (last.outcome = "return" /\ backend_mod = new)
           /\ (/\ old # None
               /\ old.req = NoFramework
               /\ (new.req = NoFramework \/ last.framework = NoFramework
                       \/ new.req = last.framework))
                => (last.outcome = "return" /\ backend_mod = new)

\* C9 witness: with qt running and a non-interactive backend active, a
\* backend that requires qt was selected.
C9_Witness ==
    /\ ConcreteCall
    /\ last.framework = "qt"
    /\ last.pre.backend_mod # None
    /\ last.pre.backend_mod.req = NoFramework
    /\ last.outcome = "return"
    /\ backend_mod.req = "qt"

\* C9 witness of the other direction: with qt running and a qt backend
\* active, a non-interactive backend was selected.
C9_WitnessBack ==
    /\ ConcreteCall
    /\ last.framework = "qt"
    /\ last.pre.backend_mod # None
    /\ last.pre.backend_mod.req = "qt"
    /\ last.outcome = "return"
    /\ backend_mod.req = NoFramework

----------------------------------------------------------------------------
\* C10: current_backend_module never returns None: what it returns is the
\* active backend.  With _backend_mod unset it runs select_gui_toolkit(None),
\* that is auto-detection when the configured backend is the sentinel and a
\* select of the configured name otherwise, and a failure of that selection
\* is raised to its caller.
C10_GetCurrentNeverNone ==
    last.op = "get_current" =>
        /\ last.outcome = "return" => (last.ret # None /\ last.ret = backend_mod)
        /\ last.outcome # "return" => (Raised /\ last.ret = None)
        /\ last.pre.backend_mod = None =>
              /\ last.selected
              /\ last.attempts # <<>>
              /\ last.outcome = last.attempts[Len(last.attempts)].outcome
              /\ last.pre.rcParams = Sentinel =>
                    last.attempts[1].name = Name(ClaimedOrder(last.framework)[1])
              /\ last.pre.rcParams # Sentinel =>
                    (Len(last.attempts) = 1 /\ last.attempts[1].name = last.pre.rcParams)

\* C10 witness: current_backend_module, nothing selected and the sentinel
\* configured, ran auto-detection and returned the backend it selected.
C10_Witness ==
    /\ last.op = "get_current"
    /\ last.selected
    /\ last.pre.backend_mod = None
    /\ last.pre.rcParams = Sentinel
    /\ last.outcome = "return"
    /\ last.ret = backend_mod
    /\ backend_mod # None

\* C10 witness of the failure: the selection failed and
\* current_backend_module raised.
C10_WitnessRaise ==
    /\ last.op = "get_current"
    /\ last.selected
    /\ Raised
    /\ backend_mod = None

----------------------------------------------------------------------------
\* C11: a select of a name (given, or read from the Config Store for None)
\* whose module does not import raises that ImportError to its caller after
\* this one attempt: nothing else is tried, nothing is written and nobody is
\* notified.
C11_UnavailableNamePropagates ==
    (/\ ConcreteCall
     /\ Requested.kind = "str"
     /\ import_module(backend_module_name(Requested),
                      [framework |-> last.framework, importable |-> importable,
                       ip |-> ip], last.pre) = None)
        => /\ Unavailable(last)
           /\ Len(last.attempts) = 1
           /\ last.attempts[1].name = Requested
           /\ last.commits = 0
           /\ last.notified = <<>>
           /\ StateAsBefore
           /\ sys_modules = last.pre.sys_modules

\* C11 witness: with a backend active and agg installed, a select of a name
\* that does not import raised Unavailable.
C11_Witness ==
    /\ last.op = "select"
    /\ last.req = Name("qtagg")
    /\ LastResort \in importable
    /\ last.pre.backend_mod # None
    /\ Unavailable(last)
    /\ backend_mod = last.pre.backend_mod

----------------------------------------------------------------------------
\* C12: after a select that returned, both Config Store slots hold the same
\* string, never the sentinel: the name of the attempt that won, which is the
\* name asked for, the candidate that was selected, or the key synthesized
\* for the class passed in; and _backend_mod is that attempt's backend.
C12_SlotsNameActiveBackend ==
    (Selected /\ last.outcome = "return") =>
        LET n == Len(last.attempts)
            won == last.attempts[n]
        IN /\ rcParams = rcParamsDefault
           /\ rcParams # Sentinel
           /\ rcParams.kind = "str"
           /\ rcParams = won.name
           /\ backend_mod = won.backend
           /\ Requested.kind = "str" => rcParams = Requested
           /\ Requested.kind = "backend" => rcParams = SynthesizedKey(Requested)
           /\ Requested = Sentinel => rcParams = Name(ClaimedOrder(last.framework)[n])

\* C12 witness: the sentinel was configured in both slots, auto-detection
\* returned, and both slots now name the backend it selected.
C12_Witness ==
    /\ AutoCall
    /\ last.pre.rcParams = Sentinel
    /\ last.pre.rcParamsDefault = Sentinel
    /\ last.outcome = "return"
    /\ rcParams = Name(backend_mod.name)
    /\ rcParamsDefault = rcParams

----------------------------------------------------------------------------
\* An attempt that got past resolution and the compatibility check.
Passed(a) == ~Unavailable(a) /\ ~IsIncompatible(a)

\* The attempts of the last call that got past both.
PassedAttempts == {i \in DOMAIN last.attempts : Passed(last.attempts[i])}

\* C13: enable_gui is called only for an attempt that passed and was
\* committed, never without a session, and once for a call that returned,
\* with the requirement of the backend that is now active.  In
\* auto-detection the ImportError of enable_gui is caught by the loop like
\* Unavailable: the candidate stays committed, a later candidate is selected
\* and notified too.
C13_NotifiedOncePerSuccess ==
    Selected =>
        /\ ip = "absent" => last.notified = <<>>
        /\ ip # "absent" => Len(last.notified) = Cardinality(PassedAttempts)
        /\ Len(last.notified) <= last.commits
        /\ (last.outcome = "return" /\ ip # "absent")
              => last.notified = <<backend_mod.req>>

----------------------------------------------------------------------------
\* C14: one top-level call writes the Config Store and _backend_mod at most
\* once, for the attempt that passed, which is the last one; a call that
\* wrote nothing leaves them as they were.  A candidate whose enable_gui
\* raises ImportError has been written (C1) when the loop goes on, so a later
\* candidate is written as well.
C14_WrittenAtMostOnce ==
    Selected =>
        /\ last.commits <= 1
        /\ last.commits = Cardinality(PassedAttempts)
        /\ last.commits = 1 =>
              /\ PassedAttempts = {Len(last.attempts)}
              /\ backend_mod = last.attempts[Len(last.attempts)].backend
        /\ last.commits = 0 => StateAsBefore

----------------------------------------------------------------------------
\* C15: a select of a class that fails the compatibility check leaves
\* _backend_mod, both Config Store slots and sys.modules as before.  The code
\* puts the class in sys.modules under its synthesized key (line 102) before
\* the check (lines 104-119).
C15_RefusedObjectLeavesNothing ==
    (/\ last.op = "select"
     /\ last.req \in BackendObjects
     /\ IsIncompatible(last))
        => /\ StateAsBefore
           /\ sys_modules = last.pre.sys_modules

----------------------------------------------------------------------------
\* r is absent, or no framework runs, or the two are equal.
CompatibleWith(f, r) == r = NoFramework \/ f = NoFramework \/ f = r

\* C16: the backend a returning select made active is compatible with the
\* framework that ran during the call; the probe's answer staying the same,
\* every active backend is compatible with the running framework.
C16_ActiveIsCompatible ==
    /\ (Selected /\ last.outcome = "return")
          => /\ backend_mod # None
             /\ CompatibleWith(last.framework, backend_mod.req)
    /\ backend_mod # None => CompatibleWith(framework, backend_mod.req)

\* C16 witness: with tk running, auto-detection returned a backend that
\* requires tk.
C16_Witness ==
    /\ AutoCall
    /\ last.outcome = "return"
    /\ framework = "tk"
    /\ backend_mod.req = "tk"

----------------------------------------------------------------------------
\* C17: after a select of a class has returned, select(None), which reads the
\* key that select persisted, returns a backend with the members of that
\* class.  The class is in sys.modules under "module://_backend_mod_<id>"
\* while import_module is given "_backend_mod_<id>": the import fails.
C17_Reselect ==
    (C5_AfterObjectSelect /\ last'.op = "select" /\ last'.req = None)
        => /\ ~Unavailable(last')
           /\ last'.outcome = "return"
           /\ backend_mod'.name = last.req.name
           /\ backend_mod'.req = last.req.req

C17_PersistedNameResolves == [][C17_Reselect]_vars

----------------------------------------------------------------------------
\* C18: a call makes a bounded number of attempts, each a select of a
\* concrete name or class that never starts auto-detection again: one for a
\* given backend, and for auto-detection at most the best guess, the five
\* fallbacks and the last resort, 7 in all.
C18_BoundedAttempts ==
    Selected =>
        /\ 1 <= Len(last.attempts) /\ Len(last.attempts) <= 7
        /\ \A i \in DOMAIN last.attempts :
              last.attempts[i].name.kind = "str" /\ last.attempts[i].name # Sentinel
        /\ ConcreteCall => Len(last.attempts) = 1
        /\ AutoCall =>
              Len(last.attempts) <=
                  (IF last.framework \in Frameworks THEN 1 ELSE 0) + Len(Fallbacks) + 1

\* C18 witness: with qt running and nothing installed, auto-detection made
\* its seven attempts and raised.
C18_Witness ==
    /\ AutoCall
    /\ last.framework = "qt"
    /\ importable = {}
    /\ Len(last.attempts) = 7
    /\ Raised

====
